---- MODULE Spec2Model ----
(***************************************************************************)
(* A model of file_handler/factory.py: the Handler contract, the           *)
(* CSVHandler adapter (load / save through Python's csv module on a text   *)
(* file) and the create_handler factory over the HANDLER_CLASSES registry. *)
(*                                                                         *)
(* Text is a sequence of one-character strings.  A field is such a         *)
(* sequence, a row a sequence of fields, tabular data a sequence of rows.  *)
(***************************************************************************)
EXTENDS Naturals, Sequences, FiniteSets

\* ------------------------------------------------------------------ bounds

\* Size of the tabular data drawn in InitCSV: rows + fields + characters.
MaxSize == 6

\* Number of handler instances a behaviour constructs.
MaxHandlers == 2

\* ------------------------------------------------------------- characters

CR == "\r"
LF == "\n"
Quote == "\""
\* The end-of-line mark csv.reader feeds its parser after each line.
EOL == "EOL"

\* The alphabet of generated fields: an ordinary character, the two
\* delimiters in use, the quote character and the two newline characters.
Chars == {"a", ",", ";", Quote, CR, LF}

Delimiters == {",", ";"}

\* ------------------------------------------------------------ csv.writer
\* csv.writer(csv_file, delimiter=d): dialect excel, QUOTE_MINIMAL,
\* quotechar '"', doublequote, lineterminator "\r\n".

\* A field is quoted when it holds the delimiter, the quote character or a
\* character of the line terminator.
NeedsQuote(field, d) ==
    \E i \in 1..Len(field) : field[i] \in {d, Quote, CR, LF}

RECURSIVE DoubleQuotes(_)
DoubleQuotes(field) ==
    IF field = <<>> THEN <<>>
    ELSE (IF Head(field) = Quote THEN <<Quote, Quote>> ELSE <<Head(field)>>)
         \o DoubleQuotes(Tail(field))

\* quoting=csv.QUOTE_ALL: every field is quoted.
JoinAppendQuoteAll(field, d) == <<Quote>> \o DoubleQuotes(field) \o <<Quote>>

JoinAppend(field, d) ==
    IF NeedsQuote(field, d)
    THEN <<Quote>> \o DoubleQuotes(field) \o <<Quote>>
    ELSE field

RECURSIVE JoinFields(_, _)
JoinFields(row, d) ==
    IF row = <<>> THEN <<>>
    ELSE IF Len(row) = 1 THEN JoinAppend(row[1], d)
    ELSE JoinAppend(row[1], d) \o <<d>> \o JoinFields(Tail(row), d)

\* writer.writerow: a row of one empty field is written as "" so that it is
\* not read back as an empty row.
WriteRow(row, d) ==
    (IF Len(row) = 1 /\ row[1] = <<>> THEN <<Quote, Quote>> ELSE JoinFields(row, d))
    \o <<CR, LF>>

RECURSIVE WriteRows(_, _)
WriteRows(data, d) ==
    IF data = <<>> THEN <<>>
    ELSE WriteRow(Head(data), d) \o WriteRows(Tail(data), d)

\* ------------------------------------------------- text-mode file reading
\* open(file_path, "r") has newline=None: on reading, "\r\n" and a lone
\* "\r" both become "\n".

RECURSIVE UniversalNewlines(_)
UniversalNewlines(text) ==
    IF text = <<>> THEN <<>>
    ELSE IF Head(text) = CR
         THEN <<LF>> \o UniversalNewlines(
                  IF Len(text) >= 2 /\ text[2] = LF THEN Tail(Tail(text)) ELSE Tail(text))
         ELSE <<Head(text)>> \o UniversalNewlines(Tail(text))

\* Text mode without newline="" where os.linesep is "\r\n": every "\n"
\* written is stored as "\r\n".
RECURSIVE LinesepTranslation(_)
LinesepTranslation(text) ==
    IF text = <<>> THEN <<>>
    ELSE (IF Head(text) = LF THEN <<CR, LF>> ELSE <<Head(text)>>)
         \o LinesepTranslation(Tail(text))

\* open(file_path, "w", newline=""): what is written is stored untranslated.
NoTranslation(text) == text

\* ------------------------------------------------------------ csv.reader
\* The parser of csv.reader(csv_file, delimiter=d), one character at a time.

ParserStart == [state |-> "START_RECORD", field |-> <<>>, fields |-> <<>>, rows |-> <<>>]

SaveField(ps) == [ps EXCEPT !.fields = Append(@, ps.field), !.field = <<>>]

AddChar(ps, c) == [ps EXCEPT !.field = Append(@, c)]

AfterNewline(c) == IF c = EOL THEN "START_RECORD" ELSE "EAT_CRNL"

StartField(ps, c, d) ==
    IF c \in {LF, CR, EOL} THEN [SaveField(ps) EXCEPT !.state = AfterNewline(c)]
    ELSE IF c = Quote THEN [ps EXCEPT !.state = "IN_QUOTED_FIELD"]
    ELSE IF c = d THEN [SaveField(ps) EXCEPT !.state = "START_FIELD"]
    ELSE [AddChar(ps, c) EXCEPT !.state = "IN_FIELD"]

ProcessChar(ps, c, d) ==
    CASE ps.state = "START_RECORD" ->
           IF c = EOL THEN ps
           ELSE IF c \in {LF, CR} THEN [ps EXCEPT !.state = "EAT_CRNL"]
           ELSE StartField(ps, c, d)
      [] ps.state = "START_FIELD" -> StartField(ps, c, d)
      [] ps.state = "IN_FIELD" ->
           IF c \in {LF, CR, EOL} THEN [SaveField(ps) EXCEPT !.state = AfterNewline(c)]
           ELSE IF c = d THEN [SaveField(ps) EXCEPT !.state = "START_FIELD"]
           ELSE AddChar(ps, c)
      [] ps.state = "IN_QUOTED_FIELD" ->
           IF c = EOL THEN ps
           ELSE IF c = Quote THEN [ps EXCEPT !.state = "QUOTE_IN_QUOTED_FIELD"]
           ELSE AddChar(ps, c)
      [] ps.state = "QUOTE_IN_QUOTED_FIELD" ->
           IF c = Quote THEN [AddChar(ps, c) EXCEPT !.state = "IN_QUOTED_FIELD"]
           ELSE IF c = d THEN [SaveField(ps) EXCEPT !.state = "START_FIELD"]
           ELSE IF c \in {LF, CR, EOL} THEN [SaveField(ps) EXCEPT !.state = AfterNewline(c)]
           ELSE [AddChar(ps, c) EXCEPT !.state = "IN_FIELD"]
      [] ps.state = "EAT_CRNL" ->
           IF c \in {LF, CR} THEN ps
           ELSE IF c = EOL THEN [ps EXCEPT !.state = "START_RECORD"]
           ELSE [ps EXCEPT !.state = "ERROR"]
      [] OTHER -> ps

\* After the last character of a line the parser is fed EOL; the record is
\* complete when that leaves it in START_RECORD, and the next record starts
\* from a reset parser.
EndOfLine(ps, d) ==
    LET q == ProcessChar(ps, EOL, d)
    IN  IF q.state = "START_RECORD"
        THEN [ParserStart EXCEPT !.rows = Append(q.rows, q.fields)]
        ELSE q

\* End of input inside a record: the pending field, if any, closes the record.
EndOfFile(ps) ==
    IF ps.field # <<>> \/ ps.state = "IN_QUOTED_FIELD"
    THEN Append(ps.rows, SaveField(ps).fields)
    ELSE ps.rows

\* The file is iterated line by line; a line ends after "\n" or at the end of
\* the text.  The result is the parser after the last line.
RECURSIVE ReadRows(_, _, _)
ReadRows(ps, text, d) ==
    IF ps.state = "ERROR" \/ text = <<>> THEN ps
    ELSE LET q == ProcessChar(ps, Head(text), d)
         IN  IF Head(text) = LF \/ Len(text) = 1
             THEN ReadRows(EndOfLine(q, d), Tail(text), d)
             ELSE ReadRows(q, Tail(text), d)

Reader(text, d) == ReadRows(ParserStart, UniversalNewlines(text), d)

\* csv.Error raised by the parser (a character after a newline outside quotes).
ReaderFails(text, d) == Reader(text, d).state = "ERROR"

\* data = [row for row in reader]
Parse(text, d) == EndOfFile(Reader(text, d))

\* -------------------------------------------------------- generated data
\* All tabular data of a given size, where the size of data is the number of
\* its rows plus the number of its fields plus the number of its characters.

FieldsOfSize(n) == IF n = 0 THEN {} ELSE [1..(n - 1) -> Chars]

RECURSIVE FieldSeqs(_)
FieldSeqs(m) ==
    IF m = 0 THEN {<<>>}
    ELSE UNION {{<<f>> \o rest : f \in FieldsOfSize(k), rest \in FieldSeqs(m - k)} : k \in 1..m}

RowsOfSize(n) == IF n = 0 THEN {} ELSE FieldSeqs(n - 1)

RECURSIVE RowSeqs(_)
RowSeqs(m) ==
    IF m = 0 THEN {<<>>}
    ELSE UNION {{<<r>> \o rest : r \in RowsOfSize(k), rest \in RowSeqs(m - k)} : k \in 1..m}

Data == UNION {RowSeqs(m) : m \in 0..MaxSize}

\* The caller's sample tables of the full specification: the empty table, a
\* table of two rows of two fields, and a field holding a carriage return.
Samples ==
    { <<>>,
      << << <<"a">>, <<"b">> >>, << <<"c">>, <<"d">> >> >>,
      << << <<"a", CR, "b">> >> >> }

\* ------------------------------------------------------------ file system

Paths == {"new.csv", "old.csv", "dir", "missing/new.csv", "locked.csv"}

\* What the old files hold before the first call.
PriorContent == WriteRows(<< << <<"k">>, <<"v">> >>, << <<"x">>, <<"y">> >>, << <<"z">> >> >>, ",")

InitialFiles ==
    [p \in Paths |->
        CASE p = "new.csv"         -> [kind |-> "absent",   content |-> <<>>]
          [] p = "old.csv"         -> [kind |-> "file",     content |-> PriorContent]
          [] p = "dir"             -> [kind |-> "dir",      content |-> <<>>]
          [] p = "missing/new.csv" -> [kind |-> "noparent", content |-> <<>>]
          [] p = "locked.csv"      -> [kind |-> "denied",   content |-> PriorContent]]

\* The kinds of path that do not exist: no such entry, or no such directory.
Missing == {"absent", "noparent"}

NoError == [kind |-> "none", msg |-> <<>>]

\* The exception a failing open() or write raises, by cause: the OSError
\* subclass of the errno, whose message names the path open() was given.
OSErrorOf(errno, file_path) ==
    CASE errno = "ENOENT" -> [kind |-> "FileNotFoundError",
                              msg |-> <<"[Errno 2] No such file or directory: ", file_path>>]
      [] errno = "EISDIR" -> [kind |-> "IsADirectoryError",
                              msg |-> <<"[Errno 21] Is a directory: ", file_path>>]
      [] errno = "EACCES" -> [kind |-> "PermissionError",
                              msg |-> <<"[Errno 13] Permission denied: ", file_path>>]
      [] errno = "ENOSPC" -> [kind |-> "OSError",
                              msg |-> <<"[Errno 28] No space left on device">>]
      \* csv.Error, raised by the writer for a row that is not a sequence
      [] errno = "EBADROW" -> [kind |-> "Error", msg |-> <<"iterable expected">>]

\* open(file_path, "r"): the errno it fails with, "" when it succeeds.
OpenReadErrno(file) ==
    CASE file.kind \in Missing  -> "ENOENT"
      [] file.kind = "dir"      -> "EISDIR"
      [] file.kind = "denied"   -> "EACCES"
      [] OTHER                  -> ""

\* open(file_path, "w", newline=""): the errno it fails with, "" when it succeeds.
OpenWriteErrno(file) ==
    CASE file.kind = "noparent" -> "ENOENT"
      [] file.kind = "dir"      -> "EISDIR"
      [] file.kind = "denied"   -> "EACCES"
      [] OTHER                  -> ""

\* Mode "a" in place of "w": the file is created when absent, its content kept.
OpenAppend(file) == [kind |-> "file", content |-> file.content]

\* Mode "w": the file is created when absent and truncated when it exists.
OpenTruncate(file) == [kind |-> "file", content |-> <<>>]

\* file.write(text) on a file opened with newline="".
WriteText(file, text) == [file EXCEPT !.content = @ \o NoTranslation(text)]

\* A with block that releases the handle only when its body ends normally.
WithExitNoFinally(handles, failed) == IF failed THEN handles ELSE handles - 1

\* The end of a with block: the handle is closed however the body ended.
WithExit(handles, failed) == handles - 1

\* An except clause that catches every OSError and re-raises it as not found.
ExceptOSError(exc, file_path) ==
    IF exc.kind \in {"FileNotFoundError", "IsADirectoryError", "PermissionError", "OSError"}
    THEN [kind |-> "FileNotFoundError", msg |-> <<"CSV file not found: ", file_path>>]
    ELSE exc

\* The re-raised error without the path in its message.
ExceptWithoutPath(exc, file_path) ==
    IF exc.kind = "FileNotFoundError"
    THEN [kind |-> "FileNotFoundError", msg |-> <<"CSV file not found">>]
    ELSE exc

\* except FileNotFoundError: raise FileNotFoundError(f"CSV file not found: {file_path}")
ExceptFileNotFoundError(exc, file_path) ==
    IF exc.kind = "FileNotFoundError"
    THEN [kind |-> "FileNotFoundError", msg |-> <<"CSV file not found: ", file_path>>]
    ELSE exc

\* --------------------------------------------------------------- registry

\* Keys a caller may ask for.
Keys == {"csv", "CSV", "Csv", "", "xml"}

None == "None"

Lower(k) == IF k \in {"CSV", "Csv"} THEN "csv" ELSE k

\* The methods a class defines; Handler's are abstract.
Methods(cls) == IF cls = "CSVHandler" THEN {"load", "save"} ELSE {}

\* A lookup that folds the case of the key.
DictGetIgnoreCase(dict, key) ==
    IF Lower(key) \in DOMAIN dict THEN dict[Lower(key)] ELSE None

\* dict.get(key): the value, or None when the key is not in the dictionary.
DictGet(dict, key) == IF key \in DOMAIN dict THEN dict[key] ELSE None

Range(seq) == {seq[i] : i \in 1..Len(seq)}

\* A factory that keeps one instance per class and hands it out again.
CachedObject(objects) == IF objects = <<>> THEN 1 ELSE objects[1]

\* handler_class(): a new object, identified by a number no object has yet.
NewObject(objects) == Len(objects) + 1

\* ------------------------------------------------------------------ state

VARIABLES
    fs,               \* the files: path -> [kind, content]
    handles,          \* number of file objects open
    HANDLER_CLASSES,  \* the registry: data source -> handler class
    instances,        \* the handler objects create_handler has returned
    pool,             \* the tables the caller saves
    ret,              \* the last call: its arguments and how it ended
    lastWrite         \* per path, the last save that opened it: arguments, rows written

vars == <<fs, handles, HANDLER_CLASSES, instances, pool, ret, lastWrite>>

NoCall ==
    [op |-> "none", target |-> "", delimiter |-> "", data |-> <<>>, outcome |-> "none",
     value |-> <<>>, handler |-> 0, cls |-> "", error |-> NoError, cause |-> NoError, written |-> 0]

NeverSaved == [status |-> "none", data |-> <<>>, delimiter |-> "", written |-> 0]

Registry == [k \in {"csv"} |-> "CSVHandler"]

Init ==
    /\ fs = InitialFiles
    /\ handles = 0
    /\ HANDLER_CLASSES = Registry
    /\ instances = <<>>
    /\ pool = Samples
    /\ ret = NoCall
    /\ lastWrite = [p \in Paths |-> NeverSaved]

\* ---------------------------------------------------------------- actions

\* create_handler(data_source)
CreateHandler(data_source) ==
    LET handler_class == DictGet(HANDLER_CLASSES, data_source)
        handler == NewObject(instances)
    IN  /\ handler_class # None => Len(instances) < MaxHandlers
        /\ instances' = IF handler_class # None THEN Append(instances, handler) ELSE instances
        /\ ret' = IF handler_class # None
                  THEN [NoCall EXCEPT !.op = "create_handler", !.target = data_source,
                                      !.outcome = "ok", !.handler = handler,
                                      !.cls = handler_class]
                  ELSE [NoCall EXCEPT !.op = "create_handler", !.target = data_source,
                                      !.outcome = "raise",
                                      !.error = [kind |-> "ValueError",
                                                 msg |-> <<"Unsupported data source: ", data_source>>]]
        /\ UNCHANGED <<fs, handles, HANDLER_CLASSES, pool, lastWrite>>

\* CSVHandler.load(file_path, delimiter), called on the handler object h
Load(h, file_path, delimiter) ==
    LET file == fs[file_path]
        errno == OpenReadErrno(file)
        cause == IF errno # "" THEN OSErrorOf(errno, file_path)
                 ELSE IF ReaderFails(file.content, delimiter)
                      THEN [kind |-> "Error", msg |-> <<"new-line character seen in unquoted field">>]
                      ELSE NoError
    IN  /\ h \in Range(instances)
        /\ handles' = IF errno = "" THEN WithExit(handles + 1, cause # NoError) ELSE handles
        /\ ret' = IF cause = NoError
                  THEN [NoCall EXCEPT !.op = "load", !.target = file_path,
                                      !.delimiter = delimiter, !.outcome = "ok",
                                      !.value = Parse(file.content, delimiter)]
                  ELSE [NoCall EXCEPT !.op = "load", !.target = file_path,
                                      !.delimiter = delimiter, !.outcome = "raise",
                                      !.cause = cause,
                                      !.error = ExceptFileNotFoundError(cause, file_path)]
        /\ UNCHANGED <<fs, HANDLER_CLASSES, instances, pool, lastWrite>>

\* What makes writing a row raise: the device is full, or the row is not a
\* sequence of fields.
WriteFaults == {"ENOSPC", "EBADROW"}

\* CSVHandler.save(file_path, data, delimiter), called on the handler object h.
\* bad is the index of the row whose writing raises (0: every row is
\* written) and fault is why.
Save(h, file_path, data, delimiter, bad, fault) ==
    LET file == fs[file_path]
        errno == OpenWriteErrno(file)
        rows == IF bad = 0 THEN data ELSE SubSeq(data, 1, bad - 1)
        after == WriteText(OpenTruncate(file), WriteRows(rows, delimiter))
        cause == IF errno # "" THEN OSErrorOf(errno, file_path)
                 ELSE IF bad # 0 THEN OSErrorOf(fault, file_path)
                 ELSE NoError
    IN  /\ h \in Range(instances)
        /\ fs' = IF errno = "" THEN [fs EXCEPT ![file_path] = after] ELSE fs
        /\ handles' = IF errno = "" THEN WithExit(handles + 1, cause # NoError) ELSE handles
        /\ ret' = IF cause = NoError
                  THEN [NoCall EXCEPT !.op = "save", !.target = file_path, !.data = data,
                                      !.delimiter = delimiter, !.outcome = "ok",
                                      !.written = Len(rows)]
                  ELSE [NoCall EXCEPT !.op = "save", !.target = file_path, !.data = data,
                                      !.delimiter = delimiter, !.outcome = "raise",
                                      !.cause = cause, !.error = cause,
                                      !.written = IF errno = "" THEN Len(rows) ELSE 0]
        /\ lastWrite' = IF errno = ""
                        THEN [lastWrite EXCEPT ![file_path] =
                                 [status |-> IF cause = NoError THEN "ok" ELSE "failed",
                                  data |-> data, delimiter |-> delimiter,
                                  written |-> Len(rows)]]
                        ELSE lastWrite
        /\ UNCHANGED <<HANDLER_CLASSES, instances, pool>>

Next ==
    \/ \E data_source \in Keys : CreateHandler(data_source)
    \/ \E h \in Range(instances), file_path \in Paths, delimiter \in Delimiters :
          Load(h, file_path, delimiter)
    \/ \E h \in Range(instances), file_path \in Paths, data \in pool,
          delimiter \in Delimiters :
          \/ Save(h, file_path, data, delimiter, 0, "")
          \/ \E bad \in 1..Len(data), fault \in WriteFaults :
                Save(h, file_path, data, delimiter, bad, fault)

Spec == Init /\ [][Next]_vars

\* The state after handler = create_handler("csv"), with one table to save.
InitCSV ==
    /\ fs = InitialFiles
    /\ handles = 0
    /\ HANDLER_CLASSES = Registry
    /\ instances = <<1>>
    /\ pool \in {{data} : data \in Data}
    /\ ret = NoCall
    /\ lastWrite = [p \in Paths |-> NeverSaved]

\* Saving the table to one file and loading it back, under either delimiter.
NextCSV ==
    \/ \E h \in Range(instances), delimiter \in Delimiters :
          Load(h, "new.csv", delimiter)
    \/ \E h \in Range(instances), data \in pool, delimiter \in Delimiters :
          Save(h, "new.csv", data, delimiter, 0, "")

SpecCSV == InitCSV /\ [][NextCSV]_vars

\* ----------------------------------------------------------------- claims

\* The message holds the value x that was formatted into it.
Embeds(msg, x) == \E i \in 1..Len(msg) : msg[i] = x

IsCall(r, op, outcome) == r.op = op /\ r.outcome = outcome

\* C1: a successful save(p, D, d) followed by load(p, d) returns exactly D,
\* for every table D (fields may hold the delimiter, the quote character,
\* "\n" or "\r") and either delimiter.
C1_RoundTrip ==
    [][(/\ IsCall(ret, "save", "ok")
        /\ ret'.op = "load"
        /\ ret'.target = ret.target
        /\ ret'.delimiter = ret.delimiter)
       => (ret'.outcome = "ok" /\ ret'.value = ret.data)]_vars

\* C2: create_handler(k) succeeds exactly when k is "csv"; then it returns an
\* instance whose class defines load and save; for every other key it raises
\* ValueError with k in the message and returns no handler.
C2_CreateHandler ==
    ret.op = "create_handler" =>
        /\ ret.outcome = "ok" <=> ret.target = "csv"
        /\ ret.outcome = "ok" =>
              /\ ret.handler \in Range(instances)
              /\ {"load", "save"} \subseteq Methods(ret.cls)
        /\ ret.outcome # "ok" =>
              /\ ret.outcome = "raise"
              /\ ret.error.kind = "ValueError"
              /\ Embeds(ret.error.msg, ret.target)
              /\ ret.handler = 0

\* C2 witness: create_handler("CSV") was rejected.
C2_Witness == IsCall(ret, "create_handler", "raise") /\ ret.target = "CSV"

C4_SaveReplaces ==
    IsCall(ret, "save", "ok") =>
        fs[ret.target] = [kind |-> "file", content |-> WriteRows(ret.data, ret.delimiter)]

\* C4 witness: the empty table was saved over old.csv, which held content
\* from the start, and the file is now empty.
C4_Witness ==
    /\ IsCall(ret, "save", "ok")
    /\ ret.target = "old.csv"
    /\ ret.data = <<>>
    /\ fs["old.csv"].content = <<>>

C6_Propagation ==
    (ret.op \in {"load", "save"} /\ ret.outcome = "raise") =>
        LET kind == fs[ret.target].kind IN
        /\ kind = "denied" => ret.error = OSErrorOf("EACCES", ret.target)
        /\ kind = "dir" => ret.error = OSErrorOf("EISDIR", ret.target)
        /\ (ret.op = "save" /\ kind = "noparent") => ret.error = OSErrorOf("ENOENT", ret.target)
        /\ (ret.op = "save" /\ kind = "file") =>
              ret.error \in {OSErrorOf(fault, ret.target) : fault \in WriteFaults}
        /\ (ret.op = "load" /\ kind \in Missing) =>
              ret.error = [kind |-> "FileNotFoundError",
                           msg |-> <<"CSV file not found: ", ret.target>>]
        /\ ret.error # ret.cause => (ret.op = "load" /\ kind \in Missing)

\* C6 witness: a load of the unreadable locked.csv raised PermissionError.
C6_Witness ==
    /\ IsCall(ret, "load", "raise")
    /\ ret.target = "locked.csv"
    /\ ret.error.kind = "PermissionError"

\* Fields joined by a separator, as plain text.
RECURSIVE JoinText(_, _)
JoinText(row, sep) ==
    IF row = <<>> THEN <<>>
    ELSE IF Len(row) = 1 THEN row[1]
    ELSE row[1] \o <<sep>> \o JoinText(Tail(row), sep)

\* Every row has a field, and no field holds a delimiter, a quote or a newline.
PlainRows(data) ==
    \A i \in 1..Len(data) :
        /\ data[i] # <<>>
        /\ \A j \in 1..Len(data[i]) : \A k \in 1..Len(data[i][j]) :
              data[i][j][k] \notin {",", ";", Quote, CR, LF}

Unsplit(data) == [i \in 1..Len(data) |-> <<JoinText(data[i], ";")>>]

\* C7: for plain data with non-empty rows, save(p, D, ";") followed by
\* load(p, ",") returns one row per row of D, each a single field: the row's
\* fields joined by ";".
C7_DelimiterMismatch ==
    [][(/\ IsCall(ret, "save", "ok")
        /\ ret.delimiter = ";"
        /\ PlainRows(ret.data)
        /\ ret'.op = "load"
        /\ ret'.target = ret.target
        /\ ret'.delimiter = ",")
       => (ret'.outcome = "ok" /\ ret'.value = Unsplit(ret.data))]_vars

\* C7 witness: a row of two plain fields saved with ";" was loaded with ","
\* as one unsplit field.
C7_Witness ==
    /\ IsCall(ret, "load", "ok")
    /\ ret.delimiter = ","
    /\ lastWrite[ret.target].status = "ok"
    /\ lastWrite[ret.target].delimiter = ";"
    /\ PlainRows(lastWrite[ret.target].data)
    /\ \E i \in 1..Len(lastWrite[ret.target].data) : Len(lastWrite[ret.target].data[i]) = 2
    /\ ret.value = Unsplit(lastWrite[ret.target].data)

\* C8: no file object is open once a call has returned or raised.
C8_HandlesReleased == handles = 0

\* C8 witness: a save raised while writing rows, after the file was opened.
C8_Witness ==
    /\ IsCall(ret, "save", "raise")
    /\ lastWrite[ret.target].status = "failed"
    /\ ret.written >= 1
    /\ handles = 0

\* C9: a load(p, d) returns the data of the last save(p, D, d) to p when that
\* save succeeded, whichever handler objects made the calls and whatever was
\* called on other paths in between.
C9_LoadReturnsLastSave ==
    (/\ ret.op = "load"
     /\ lastWrite[ret.target].status = "ok"
     /\ lastWrite[ret.target].delimiter = ret.delimiter)
    => (ret.outcome = "ok" /\ ret.value = lastWrite[ret.target].data)

\* C10: the objects create_handler has returned are pairwise distinct, a
\* successful call returns the newest of them, and the registry is the one
\* the module defines.
C10_FreshInstances ==
    /\ HANDLER_CLASSES = Registry
    /\ \A i, j \in 1..Len(instances) : i # j => instances[i] # instances[j]
    /\ IsCall(ret, "create_handler", "ok") => ret.handler = instances[Len(instances)]

\* C10 witness: two handlers were made and a later call was rejected.
C10_Witness ==
    /\ Len(instances) >= 2
    /\ IsCall(ret, "create_handler", "raise")
====
